---- MODULE Spec2Model ----
(***************************************************************************)
(* Model of streamlit_app.py: the valuation routine run_valuation and the  *)
(* Streamlit script that collects the widgets and calls it.                *)
(*                                                                         *)
(* Numbers.  Every quantity of run_valuation is a Python float (IEEE-754   *)
(* binary64).  The model keeps that arithmetic: a float is a sign, a 53    *)
(* bit significand and an exponent, and *, +, -, / round to nearest, ties  *)
(* to even, as the hardware does.  The significands do not fit the model   *)
(* checker's integers, so they are little-endian sequences of 15-bit       *)
(* limbs.  round(x, 2) is Python's correctly rounded decimal rounding; a   *)
(* stored (rounded) field is represented by its integer number of          *)
(* hundredths.  Overflow, subnormals, NaN and the sign of zero are not     *)
(* modelled: the magnitudes of the model stay far from them.               *)
(***************************************************************************)
EXTENDS Integers, Sequences, FiniteSets, TLC

----------------------------------------------------------------------------
(* Naturals below 2^120, as 8 limbs of 15 bits, the least significant       *)
(* first: wide enough for the exact product, sum and quotient of two        *)
(* significands.                                                            *)

LimbBits == 15
LimbBase == 2^15

BZero == <<0, 0, 0, 0, 0, 0, 0, 0>>

BLimb(a, i) == IF 1 <= i /\ i <= 8 THEN a[i] ELSE 0

(* a natural below 2^31 as limbs, and back *)
BFromNat(n) ==
    <<n % LimbBase, (n \div LimbBase) % LimbBase, n \div (LimbBase * LimbBase),
      0, 0, 0, 0, 0>>

BToNat(a) == a[1] + LimbBase * a[2] + LimbBase * LimbBase * a[3]

(* the limbs of a + b from limb i up, c the carry into limb i *)
RECURSIVE BAddFrom(_, _, _, _)
BAddFrom(a, b, i, c) ==
    IF i > 8 THEN <<>>
    ELSE <<(a[i] + b[i] + c) % LimbBase>>
         \o BAddFrom(a, b, i + 1, (a[i] + b[i] + c) \div LimbBase)

BAdd(a, b) == BAddFrom(a, b, 1, 0)

(* the limbs of a - b from limb i up, c the borrow from limb i *)
RECURSIVE BSubFrom(_, _, _, _)
BSubFrom(a, b, i, c) ==
    IF i > 8 THEN <<>>
    ELSE <<(a[i] - b[i] - c) % LimbBase>>
         \o BSubFrom(a, b, i + 1, IF a[i] - b[i] - c < 0 THEN 1 ELSE 0)

(* a - b for a >= b *)
BSub(a, b) == BSubFrom(a, b, 1, 0)

(* -1, 0, 1 as a < b, a = b, a > b: the highest limb that differs decides *)
RECURSIVE BCmpAt(_, _, _)
BCmpAt(a, b, i) ==
    IF i = 0 THEN 0
    ELSE IF a[i] < b[i] THEN -1
    ELSE IF a[i] > b[i] THEN 1
    ELSE BCmpAt(a, b, i - 1)

BCmp(a, b) == BCmpAt(a, b, 8)

(* the limbs of a * k from limb i up, c the carry into limb i *)
RECURSIVE BMulSmallFrom(_, _, _, _)
BMulSmallFrom(a, k, i, c) ==
    IF i > 8 THEN <<>>
    ELSE <<(a[i] * k + c) % LimbBase>>
         \o BMulSmallFrom(a, k, i + 1, (a[i] * k + c) \div LimbBase)

(* a * k for 0 <= k < LimbBase *)
BMulSmall(a, k) == BMulSmallFrom(a, k, 1, 0)

(* r + a * k * LimbBase^(j-1) for a below 2^60, where the limbs of r from   *)
(* j + 4 up are 0: one row of the long multiplication                       *)
BMulRow(r, a, k, j) ==
    LET t1 == r[j] + a[1] * k
        t2 == r[j + 1] + a[2] * k + t1 \div LimbBase
        t3 == r[j + 2] + a[3] * k + t2 \div LimbBase
        t4 == r[j + 3] + a[4] * k + t3 \div LimbBase
    IN  [r EXCEPT ![j] = t1 % LimbBase, ![j + 1] = t2 % LimbBase,
                  ![j + 2] = t3 % LimbBase, ![j + 3] = t4 % LimbBase,
                  ![j + 4] = t4 \div LimbBase]

(* r and the rows of a * b from row j up *)
RECURSIVE BMulRows(_, _, _, _)
BMulRows(r, a, b, j) ==
    IF j > 4 THEN r ELSE BMulRows(BMulRow(r, a, b[j], j), a, b, j + 1)

(* a * b for a, b below 2^60 *)
BMul(a, b) == BMulRows(BZero, a, b, 1)

(* a * 2^k, for a product below 2^120 *)
BShl(a, k) ==
    LET q == k \div LimbBits
        lo == 2^(LimbBits - (k % LimbBits))
        up == 2^(k % LimbBits)
    IN  <<>> \o [i \in 1..8 |->
                    (BLimb(a, i - q) % lo) * up + BLimb(a, i - q - 1) \div lo]

(* a \div 2^k *)
BShr(a, k) ==
    LET q == k \div LimbBits
        lo == 2^(k % LimbBits)
        up == 2^(LimbBits - (k % LimbBits))
    IN  <<>> \o [i \in 1..8 |->
                    BLimb(a, i + q) \div lo + (BLimb(a, i + q + 1) % lo) * up]

(* bit k of a (bit 0 the lowest), and whether the k lowest bits are all 0 *)
BBit(a, k) == (BLimb(a, k \div LimbBits + 1) \div 2^(k % LimbBits)) % 2

BLowZero(a, k) ==
    /\ \A i \in 1..8 : i <= k \div LimbBits => a[i] = 0
    /\ BLimb(a, k \div LimbBits + 1) % 2^(k % LimbBits) = 0

(* the number of bits of a limb, and of a *)
RECURSIVE SmallBitLen(_)
SmallBitLen(x) == IF x = 0 THEN 0 ELSE 1 + SmallBitLen(x \div 2)

RECURSIVE BTop(_, _)
BTop(a, i) == IF i = 0 THEN 0 ELSE IF a[i] # 0 THEN i ELSE BTop(a, i - 1)

BBitLen(a) ==
    LET n == BTop(a, 8)
    IN  IF n = 0 THEN 0 ELSE LimbBits * (n - 1) + SmallBitLen(a[n])

(* q, or q + 1 when the part cut off below q is more than a half, or is a   *)
(* half and q is odd                                                        *)
BRoundEven(q, half, more) ==
    IF half /\ (more \/ q[1] % 2 = 1) THEN BAdd(q, BFromNat(1)) ELSE q

(* a / 2^k rounded to the nearest natural, ties to even *)
BShrRound(a, k) ==
    IF k = 0 THEN a
    ELSE BRoundEven(BShr(a, k), BBit(a, k - 1) = 1, ~BLowZero(a, k - 1))

(* One limb of a quotient: the quotient and remainder of r by b, where      *)
(* 2^59 <= b < 2^60 and r < b * LimbBase.  The estimate from the two top    *)
(* limbs of r is the quotient or exceeds it by 1 or 2.                      *)
BDigitEst(r, b) ==
    LET top == r[5] * LimbBase + r[4]
    IN  IF top \div b[4] < LimbBase THEN top \div b[4] ELSE LimbBase - 1

BDigitFrom(r, b, est) ==
    LET q == IF BCmp(BMulSmall(b, est), r) <= 0 THEN est
             ELSE IF BCmp(BMulSmall(b, est - 1), r) <= 0 THEN est - 1
             ELSE est - 2
    IN  [q |-> q, r |-> BSub(r, BMulSmall(b, q))]

BDigit(r, b) == BDigitFrom(r, b, BDigitEst(r, b))

(* long division from the top limb of a down to limb i, for b as BDigit     *)
(* wants it; q and r are the quotient and remainder of the limbs above i,   *)
(* d the limb of the quotient at i and the remainder it leaves              *)
RECURSIVE BDivLimbs(_, _, _, _, _)
RECURSIVE BDivStep(_, _, _, _, _)
BDivStep(a, b, i, q, d) ==
    IF d.q >= 0 THEN BDivLimbs(a, b, i - 1, [q EXCEPT ![i] = d.q], d.r) ELSE d

BDivLimbs(a, b, i, q, r) ==
    IF i = 0 THEN [q |-> q, r |-> r]
    ELSE BDivStep(a, b, i, q, BDigit(<<a[i], r[1], r[2], r[3], r[4], 0, 0, 0>>, b))

(* quotient and remainder of a by b, for 2^59 <= b < 2^60 *)
BDivMod(a, b) == BDivLimbs(a, b, 8, BZero, BZero)

----------------------------------------------------------------------------
(* Python floats: the value of [s, m, e] is s * m * 2^e, with m = 0 or      *)
(* 2^52 <= m < 2^53.                                                         *)

MantBits == 53

FZero == [s |-> 1, m |-> BZero, e |-> 0]

(* s * q * 2^e for q of 53 bits, or the 2^53 that rounding up can give *)
FPack(s, q, e) ==
    IF BBit(q, MantBits) = 1
    THEN [s |-> s, m |-> BShr(q, 1), e |-> e + 1]
    ELSE [s |-> s, m |-> q, e |-> e]

(* the float nearest to s * m * 2^e, for m of bl bits *)
FNormal(s, m, e, bl) ==
    IF bl = 0 THEN FZero
    ELSE IF bl <= MantBits
    THEN [s |-> s, m |-> BShl(m, MantBits - bl), e |-> e - (MantBits - bl)]
    ELSE FPack(s, BShrRound(m, bl - MantBits), e + (bl - MantBits))

(* the float nearest to s * m * 2^e, for any natural m *)
FRound(s, m, e) == FNormal(s, m, e, BBitLen(m))

FFromInt(n) == FRound(IF n < 0 THEN -1 ELSE 1, BFromNat(IF n < 0 THEN -n ELSE n), 0)

FIsZero(x) == x.m = BZero
FGtZero(x) == x.m # BZero /\ x.s = 1
FLtZero(x) == x.m # BZero /\ x.s = -1

FNeg(x) == IF FIsZero(x) THEN x ELSE [x EXCEPT !.s = -x.s]

FMul(x, y) ==
    IF FIsZero(x) \/ FIsZero(y) THEN FZero
    ELSE FRound(x.s * y.s, BMul(x.m, y.m), x.e + y.e)

(* sa * a * 2^e + sb * b * 2^e *)
FAddAligned(sa, a, sb, b, e) ==
    FRound(IF sa = sb \/ BCmp(a, b) >= 0 THEN sa ELSE sb,
           IF sa = sb THEN BAdd(a, b)
           ELSE IF BCmp(a, b) >= 0 THEN BSub(a, b) ELSE BSub(b, a),
           e)

(* hi + lo for hi.e >= lo.e, neither 0: 60 bits below the significand of    *)
(* hi hold that of lo exactly, and an operand further down than that does   *)
(* not change the rounded sum                                               *)
FAddOrdered(hi, lo) ==
    IF hi.e - lo.e > 60 THEN hi
    ELSE FAddAligned(hi.s, BShl(hi.m, 60),
                     lo.s, BShl(lo.m, 60 - (hi.e - lo.e)), hi.e - 60)

(* x + y; the sum of a number and its negative is +0.0 *)
FAdd(x, y) ==
    IF FIsZero(x) THEN y
    ELSE IF FIsZero(y) THEN x
    ELSE FAddOrdered(IF x.e >= y.e THEN x ELSE y, IF x.e >= y.e THEN y ELSE x)

FSub(x, y) == FAdd(x, FNeg(y))

(* the float of sign s nearest to 2^e times what d, the quotient and        *)
(* remainder of the significands, stands for: a sticky bit below the        *)
(* quotient tells of a remainder                                            *)
FQuotient(s, d, e) ==
    FRound(s, BAdd(BShl(d.q, 1), BFromNat(IF d.r = BZero THEN 0 ELSE 1)), e)

(* x / y for y # 0: the quotient of the significands to 57 bits or 58 *)
FDiv(x, y) ==
    IF FIsZero(y) \/ FIsZero(x) THEN FZero
    ELSE FQuotient(x.s * y.s, BDivMod(BShl(x.m, MantBits + 11), BShl(y.m, 7)),
                   x.e - y.e - (MantBits + 4) - 1)

(* x < y, x <= y *)
FLess(x, y) == FLtZero(FSub(x, y))
FLeq(x, y) == ~FGtZero(FSub(x, y))

(* the float a decimal literal num/den denotes (den > 0) *)
FLit(num, den) == FDiv(FFromInt(num), FFromInt(den))

(* round(x, 2), as its number of hundredths: x * 100 to the nearest        *)
(* integer, ties (exact ones only) to even                                  *)
Round2(x) ==
    LET n == BMulSmall(x.m, 100)
        c == IF x.e >= 0 THEN BShl(n, x.e) ELSE BShrRound(n, -x.e)
    IN  x.s * BToNat(c)

----------------------------------------------------------------------------
(* run_valuation                                                            *)

F0 == FZero
F1 == FFromInt(1)
F5 == FFromInt(5)
F6 == FFromInt(6)
F8 == FFromInt(8)
F10 == FFromInt(10)
F100 == FFromInt(100)
F003 == FLit(3, 100)
F04 == FLit(4, 10)
F05 == FLit(5, 10)
F06 == FLit(6, 10)
F07 == FLit(7, 10)
F085 == FLit(85, 100)
F125 == FLit(125, 100)

(* ZeroDivisionError, in the place of the float a division would give *)
Raised == [s |-> 0, m |-> <<>>, e |-> 0]

(* Python's x / y *)
PyDiv(x, y) == IF FIsZero(y) THEN Raised ELSE FDiv(x, y)

MarketCodes == {"DA", "ID", "FCR", "aFRR", "mFRR"}

Scenarios == {"Base", "High", "Low"}

(* Years with range(year_from, year_to): the last year left out *)
YearsWithoutLast(inputs) ==
    [i \in 1..(inputs.year_to - inputs.year_from) |-> inputs.year_from + i - 1]

(* years = list(range(year_from, year_to + 1)) *)
Years(inputs) ==
    [i \in 1..(inputs.year_to + 1 - inputs.year_from) |-> inputs.year_from + i - 1]

(* Base with the power of the battery in the place of its capacity *)
BaseOfBatteryPower(inputs) ==
    FAdd(FAdd(FAdd(FMul(inputs.pv_kw, F10),
                   FMul(inputs.battery_kw, F8)),
              FMul(inputs.heatpump_kw, F6)),
         FMul(inputs.ev_kwh, F5))

(* base = pv_kw * 10 + battery_kwh * 8 + heatpump_kw * 6 + ev_kwh * 5 *)
Base(inputs) ==
    FAdd(FAdd(FAdd(FMul(inputs.pv_kw, F10),
                   FMul(inputs.battery_kwh, F8)),
              FMul(inputs.heatpump_kw, F6)),
         FMul(inputs.ev_kwh, F5))

(* MarketFactor with .get(m, 1.0): an unknown code valued as DA *)
MarketFactorDefaultOne(m) ==
    CASE m = "DA" -> F1
      [] m = "ID" -> F07
      [] m = "FCR" -> F05
      [] m = "aFRR" -> F06
      [] m = "mFRR" -> F04
      [] OTHER -> F1

(* {...}.get(m, 0.5) *)
MarketFactor(m) ==
    CASE m = "DA" -> F1
      [] m = "ID" -> F07
      [] m = "FCR" -> F05
      [] m = "aFRR" -> F06
      [] m = "mFRR" -> F04
      [] OTHER -> F05

(* ScenarioMultiplier with the factors of High and Low exchanged *)
ScenarioMultiplierSwapped(s) ==
    CASE s = "Base" -> F1
      [] s = "High" -> F085
      [] s = "Low" -> F125

(* {...}[price_scenario]: a KeyError outside the three keys *)
ScenarioMultiplier(s) ==
    CASE s = "Base" -> F1
      [] s = "High" -> F125
      [] s = "Low" -> F085

(* year_growth = 1.0 + 0.03 * (y - years[0]) *)
YearGrowth(y, y0) == FAdd(F1, FMul(F003, FFromInt(y - y0)))

(* value = base * market_factor * scenario_multiplier * year_growth        *)
(*         * (1 + np.random.normal(scale=0.02)), n the number drawn         *)
Value(inputs, y, m, n) ==
    FMul(FMul(FMul(FMul(Base(inputs), MarketFactor(m)),
                   ScenarioMultiplier(inputs.price_scenario)),
              YearGrowth(y, inputs.year_from)),
         FAdd(F1, n))

(* The numbers np.random.normal gives, in the order of the calls: the k-th  *)
(* call of a run takes the k-th entry of the tape, which repeats.           *)
Draw(tape, k) == tape[((k - 1) % Len(tape)) + 1]

(* the unrounded values of the markets of the yi-th year, in list order *)
Values(inputs, tape, yi) ==
    LET nm == Len(inputs.markets)
    IN  [k \in 1..nm |->
            Value(inputs, Years(inputs)[yi], inputs.markets[k],
                  Draw(tape, (yi - 1) * nm + k))]

(* SumTo with total_rev = value in the place of total_rev += value *)
SumToLast(vals, k) == IF k = 0 THEN F0 ELSE vals[k]

(* total_rev = 0.0, then total_rev += value for each market in turn *)
RECURSIVE SumTo(_, _)
SumTo(vals, k) == IF k = 0 THEN F0 ELSE FAdd(SumTo(vals, k - 1), vals[k])

(* baseline_cost = household_kwh * retail_price *)
BaselineCost(inputs) == FMul(inputs.household_kwh, inputs.retail_price)

(* optimized_cost = baseline_cost - total_rev *)
OptimizedCost(baseline_cost, total_rev) == FSub(baseline_cost, total_rev)

(* savings = baseline_cost - optimized_cost *)
Savings(baseline_cost, optimized_cost) == FSub(baseline_cost, optimized_cost)

(* SavingsPct without the test of baseline_cost *)
SavingsPctUnguarded(savings, baseline_cost) ==
    LET q == PyDiv(savings, baseline_cost)
    IN  IF q = Raised THEN Raised ELSE FMul(q, F100)

(* savings_pct = (savings / baseline_cost * 100) if baseline_cost > 0 else 0 *)
SavingsPct(savings, baseline_cost) ==
    IF FGtZero(baseline_cost)
    THEN LET q == PyDiv(savings, baseline_cost)
         IN  IF q = Raised THEN Raised ELSE FMul(q, F100)
    ELSE F0

(* row[m] = round(value, 2): the last assignment to a key stays *)
MarketFields(inputs, vals) ==
    [m \in {inputs.markets[k] : k \in 1..Len(inputs.markets)} |->
        LET last == CHOOSE k \in 1..Len(inputs.markets) :
                        /\ inputs.markets[k] = m
                        /\ \A j \in (k + 1)..Len(inputs.markets) : inputs.markets[j] # m
        IN  Round2(vals[last])]

(* the row of year y, vals the unrounded values of its markets; every       *)
(* stored field is rounded to 2 decimals and kept as its hundredths         *)
RowOf(inputs, y, vals) ==
    LET total_rev == SumTo(vals, Len(vals))
        baseline_cost == BaselineCost(inputs)
        optimized_cost == OptimizedCost(baseline_cost, total_rev)
        savings == Savings(baseline_cost, optimized_cost)
        savings_pct == SavingsPct(savings, baseline_cost)
    IN  [year |-> y,
         market |-> MarketFields(inputs, vals),
         total_revenue |-> Round2(total_rev),
         baseline_cost |-> Round2(baseline_cost),
         optimized_cost |-> Round2(optimized_cost),
         savings |-> Round2(savings),
         savings_pct |-> IF savings_pct = Raised THEN 0 ELSE Round2(savings_pct),
         raised |-> savings_pct = Raised]

(* one pass of the loop over the years: the row of the yi-th year *)
Row(inputs, tape, yi) ==
    RowOf(inputs, Years(inputs)[yi], <<>> \o Values(inputs, tape, yi))

(* the row as the table holds it *)
Stored(row) ==
    [f \in DOMAIN row \ {"raised"} |-> row[f]]

(* pd.DataFrame(rows), or the exception that a row raised *)
Table(rows) ==
    IF \E yi \in 1..Len(rows) : rows[yi].raised
    THEN [status |-> "ZeroDivisionError", rows |-> <<>>]
    ELSE [status |-> "returned", rows |-> [yi \in 1..Len(rows) |-> Stored(rows[yi])]]

(* run_valuation(inputs): the table, or the exception that ends the call.   *)
(* The scenario lookup is inside both loops, so it is reached only when     *)
(* there is a year and a market.                                            *)
RunValuation(inputs, tape) ==
    IF /\ Len(Years(inputs)) > 0
       /\ Len(inputs.markets) > 0
       /\ inputs.price_scenario \notin Scenarios
    THEN [status |-> "KeyError", rows |-> <<>>]
    ELSE Table(<<>> \o [yi \in 1..Len(Years(inputs)) |-> Row(inputs, tape, yi)])

----------------------------------------------------------------------------
(* The state: the input record (in a session, the values of the sidebar     *)
(* widgets), the numbers the random generator gives to the run, the table   *)
(* or exception of the run, and of the last pass of the script: whether     *)
(* the button was clicked, the calls of run_valuation, what is on the page. *)

VARIABLES inputs, tape, result, run_button, calls, screen, passes

vars == <<inputs, tape, result, run_button, calls, screen, passes>>

NoResult == [status |-> "none", rows |-> <<>>]

(* range(2026, 2036), the options of both year boxes *)
FirstYear == 2026
LastYear == 2035

TapeChoices ==
    { <<F0>>, <<FLit(1, 100), FLit(-1, 100)>> }

----------------------------------------------------------------------------
(* The calls of run_valuation: any caller, any input record.                *)

MaxYearOffset == 1

(* pv_kw, battery_kwh, heatpump_kw, ev_kwh, battery_kw, optimization *)
AssetChoices ==
    { <<F0, F0, F0, F0, F5, "Revenue maximizing">>,
      <<F5, F10, F0, F0, F5, "Revenue maximizing">>,
      <<F0, F0, FLit(15, 10), F0, FLit(25, 10), "Cost minimizing">>,
      <<FLit(35, 10), FFromInt(7), FFromInt(2), FFromInt(40), F0, "Cost minimizing">> }

(* household_kwh, retail_price *)
CostChoices ==
    { <<FFromInt(4000), FLit(30, 100)>>,
      <<F0, FLit(30, 100)>>,
      <<FFromInt(4000), F0>> }

MarketChoices ==
    { <<>>, <<"DA">>, <<"FCR">>, <<"ID", "aFRR", "mFRR", "XX">> }

ScenarioChoices == Scenarios \cup {"Extreme"}

YearChoices == FirstYear..(FirstYear + MaxYearOffset)

CallInputs ==
    { [pv_kw |-> a[1], battery_kwh |-> a[2], heatpump_kw |-> a[3], ev_kwh |-> a[4],
       battery_kw |-> a[5], optimization |-> a[6],
       household_kwh |-> c[1], retail_price |-> c[2],
       markets |-> m, year_from |-> yf, year_to |-> yt, price_scenario |-> sc] :
         a \in AssetChoices, c \in CostChoices,
         m \in MarketChoices, yf \in YearChoices, yt \in YearChoices,
         sc \in ScenarioChoices }

Init ==
    /\ inputs \in CallInputs
    /\ tape \in TapeChoices
    /\ result = NoResult
    /\ run_button = FALSE
    /\ calls = 0
    /\ screen = {}
    /\ passes = 0

(* df = run_valuation(inputs) *)
Call ==
    /\ result = NoResult
    /\ result' = RunValuation(inputs, tape)
    /\ UNCHANGED <<inputs, tape, run_button, calls, screen, passes>>

Next == Call

Spec == Init /\ [][Next]_vars

----------------------------------------------------------------------------
(* The session: the script runs from top to bottom once when the page       *)
(* opens and once after every event of a widget; run_button is True only    *)
(* in the pass a click starts.                                              *)

MaxPasses == 4

(* the values the widgets show when the page opens *)
Defaults ==
    [pv_kw |-> F5, battery_kwh |-> F10, battery_kw |-> F5, ev_kwh |-> F0,
     heatpump_kw |-> F0, household_kwh |-> FFromInt(4000),
     retail_price |-> FLit(30, 100), markets |-> <<"DA", "ID">>,
     year_from |-> FirstYear, year_to |-> FirstYear + 4,
     price_scenario |-> "Base", optimization |-> "Revenue maximizing"]

NumberFields ==
    {"pv_kw", "battery_kwh", "battery_kw", "ev_kwh", "heatpump_kw",
     "household_kwh", "retail_price"}

(* what the user enters or picks: numbers from min_value up, options *)
NumberPicks == {F0, F5}
MarketPicks == {<<>>, <<"DA", "ID">>, <<"FCR">>, <<"ID", "aFRR", "mFRR">>}
YearPicks == {y \in FirstYear..LastYear : y - FirstYear \in {0, 4, 5}}
OptimizationPicks == {"Revenue maximizing", "Cost minimizing"}

(* NoMarkets for a script without the test of the selection *)
NoMarketsIgnored(markets) == FALSE

(* not markets *)
NoMarkets(markets) == markets = <<>>

(* df.set_index('year'): a KeyError for the table without columns that      *)
(* pd.DataFrame makes of no rows                                            *)
HasYearColumn(df) == Len(df.rows) > 0

Rendered ==
    {"table", "bar_chart", "line_chart", "cost_table", "cost_chart",
     "market_pie", "savings_pie", "download"}

(* what one pass of the script puts on the page *)
Screen(clicked, markets, df) ==
    IF ~clicked THEN {"title"}
    ELSE IF NoMarkets(markets) THEN {"title", "warning"}
    ELSE IF df.status # "returned" THEN {"title", "exception"}
    ELSE IF ~HasYearColumn(df) THEN {"title", "subheader", "exception"}
    ELSE {"title", "subheader"} \cup Rendered

(* the end of a pass of the script: df is the table of the run, if the     *)
(* pass ran the valuation                                                   *)
Shown(w, clicked, invoked, draws, df) ==
    /\ inputs' = w
    /\ run_button' = clicked
    /\ tape' = IF invoked THEN draws ELSE tape
    /\ calls' = IF invoked THEN 1 ELSE 0
    /\ result' = df
    /\ screen' = Screen(clicked, w.markets, df)

(* one pass of the script with the widgets at the values w *)
ScriptPass(w, clicked, draws) ==
    /\ passes' = passes + 1
    /\ Shown(w, clicked, clicked /\ ~NoMarkets(w.markets), draws,
             IF clicked /\ ~NoMarkets(w.markets)
             THEN RunValuation(w, draws) ELSE NoResult)

SessionInit ==
    /\ inputs = Defaults
    /\ tape = <<F0>>
    /\ result = NoResult
    /\ run_button = FALSE
    /\ calls = 0
    /\ screen = {"title"}
    /\ passes = 1

SetNumber ==
    /\ passes < MaxPasses
    /\ \E f \in NumberFields, v \in NumberPicks :
        /\ v # inputs[f]
        /\ ScriptPass([inputs EXCEPT ![f] = v], FALSE, tape)

SelectMarkets ==
    /\ passes < MaxPasses
    /\ \E m \in MarketPicks :
        /\ m # inputs.markets
        /\ ScriptPass([inputs EXCEPT !.markets = m], FALSE, tape)

SelectYearFrom ==
    /\ passes < MaxPasses
    /\ \E y \in YearPicks :
        /\ y # inputs.year_from
        /\ ScriptPass([inputs EXCEPT !.year_from = y], FALSE, tape)

SelectYearTo ==
    /\ passes < MaxPasses
    /\ \E y \in YearPicks :
        /\ y # inputs.year_to
        /\ ScriptPass([inputs EXCEPT !.year_to = y], FALSE, tape)

SelectScenario ==
    /\ passes < MaxPasses
    /\ \E sc \in Scenarios :
        /\ sc # inputs.price_scenario
        /\ ScriptPass([inputs EXCEPT !.price_scenario = sc], FALSE, tape)

SelectOptimization ==
    /\ passes < MaxPasses
    /\ \E o \in OptimizationPicks :
        /\ o # inputs.optimization
        /\ ScriptPass([inputs EXCEPT !.optimization = o], FALSE, tape)

ClickRun ==
    /\ passes < MaxPasses
    /\ \E draws \in TapeChoices : ScriptPass(inputs, TRUE, draws)

SessionNext ==
    \/ SetNumber
    \/ SelectMarkets
    \/ SelectYearFrom
    \/ SelectYearTo
    \/ SelectScenario
    \/ SelectOptimization
    \/ ClickRun

SessionSpec == SessionInit /\ [][SessionNext]_vars

----------------------------------------------------------------------------
(* What the specification says of a call, spelled from its text.            *)

Called == result # NoResult

Returned == result.status = "returned"

ValidCall ==
    /\ inputs.year_from <= inputs.year_to
    /\ inputs.markets # <<>>
    /\ inputs.price_scenario \in {"Base", "High", "Low"}

NoNoise == \A k \in 1..Len(tape) : tape[k] = FZero

SpecMarketFactor(m) ==
    CASE m = "DA" -> FLit(10, 10)
      [] m = "ID" -> FLit(7, 10)
      [] m = "FCR" -> FLit(5, 10)
      [] m = "aFRR" -> FLit(6, 10)
      [] m = "mFRR" -> FLit(4, 10)
      [] OTHER -> FLit(5, 10)

SpecScenarioMultiplier(sc) ==
    CASE sc = "Base" -> FLit(100, 100)
      [] sc = "High" -> FLit(125, 100)
      [] sc = "Low" -> FLit(85, 100)

SpecBase(inp) ==
    FAdd(FAdd(FAdd(FMul(inp.pv_kw, FFromInt(10)), FMul(inp.battery_kwh, FFromInt(8))),
              FMul(inp.heatpump_kw, FFromInt(6))),
         FMul(inp.ev_kwh, FFromInt(5)))

SpecValue(inp, y, m) ==
    FMul(FMul(FMul(SpecBase(inp), SpecMarketFactor(m)),
              SpecScenarioMultiplier(inp.price_scenario)),
         FAdd(FFromInt(1), FMul(FLit(3, 100), FFromInt(y - inp.year_from))))

(* the unrounded values of the first k markets of the i-th year, added up   *)
(* in the order of the markets                                              *)
RECURSIVE UnroundedTotal(_, _)
UnroundedTotal(i, k) ==
    IF k = 0 THEN FZero
    ELSE FAdd(UnroundedTotal(i, k - 1),
              Value(inputs, inputs.year_from + i - 1, inputs.markets[k],
                    Draw(tape, (i - 1) * Len(inputs.markets) + k)))

(* the stored values of the first k markets of a row, added up *)
RECURSIVE StoredSum(_, _)
StoredSum(row, k) ==
    IF k = 0 THEN 0 ELSE StoredSum(row, k - 1) + row.market[inputs.markets[k]]

ExampleInputs ==
    /\ inputs.pv_kw = FFromInt(5)
    /\ inputs.battery_kwh = FFromInt(10)
    /\ inputs.heatpump_kw = FZero
    /\ inputs.ev_kwh = FZero
    /\ inputs.markets = <<"DA">>
    /\ inputs.year_from = 2026
    /\ inputs.year_to = 2026
    /\ inputs.price_scenario = "Base"

(* C1: a call with year_from <= year_to, a market and a known scenario      *)
(* returns year_to - year_from + 1 rows, and the years of the rows are      *)
(* year_from, year_from + 1, ..., year_to in this order.                    *)
C1_RowsPerYear ==
    (Called /\ ValidCall) =>
        /\ Returned
        /\ Len(result.rows) = inputs.year_to - inputs.year_from + 1
        /\ \A i \in 1..Len(result.rows) :
              result.rows[i].year = inputs.year_from + i - 1

C1_Witness ==
    /\ Called /\ ValidCall
    /\ inputs.year_from < inputs.year_to
    /\ Len(result.rows) = inputs.year_to - inputs.year_from + 1

(* C2: with every noise draw 0, the value stored under market m in the row  *)
(* of year y is (pv_kw*10 + battery_kwh*8 + heatpump_kw*6 + ev_kwh*5)       *)
(* * market_factor(m) * scenario_multiplier * (1 + 0.03*(y - year_from))    *)
(* rounded to 2 decimals, with the factors of the specification's tables    *)
(* and 0.5 for an unknown market; the example call gives DA = 130.00 and    *)
(* total 130.00.                                                            *)
C2_ValueFormula ==
    /\ (Called /\ Returned /\ NoNoise /\ inputs.price_scenario \in Scenarios) =>
          \A i \in 1..Len(result.rows) : \A k \in 1..Len(inputs.markets) :
              result.rows[i].market[inputs.markets[k]]
                  = Round2(SpecValue(inputs, inputs.year_from + i - 1, inputs.markets[k]))
    /\ (Called /\ NoNoise /\ ExampleInputs) =>
          /\ Returned
          /\ Len(result.rows) = 1
          /\ result.rows[1].market["DA"] = 13000
          /\ result.rows[1].total_revenue = 13000

C2_Witness ==
    /\ Called /\ Returned /\ NoNoise /\ ValidCall
    /\ inputs.year_from < inputs.year_to
    /\ "XX" \in DOMAIN result.rows[2].market
    /\ result.rows[2].market["XX"] > 0
    /\ result.rows[2].market["ID"] > result.rows[1].market["ID"]

(* C3: in every row the stored values of the markets add up to the stored   *)
(* total_revenue within 0.01 times the number of markets, and the stored    *)
(* total is the sum of the unrounded values, rounded.                       *)
C3_TotalWithinTolerance ==
    (Called /\ Returned) =>
        \A i \in 1..Len(result.rows) :
            \A t \in {UnroundedTotal(i, Len(inputs.markets))} :
                LET n == Len(inputs.markets)
                    d == StoredSum(result.rows[i], n) - result.rows[i].total_revenue
                IN  /\ -n <= d /\ d <= n
                    /\ result.rows[i].total_revenue = Round2(t)

C3_Witness ==
    /\ Called /\ Returned
    /\ Len(inputs.markets) = 4
    /\ \E i \in 1..Len(result.rows) :
          StoredSum(result.rows[i], 4) # result.rows[i].total_revenue

(* C4: a call with a price_scenario other than Base, High, Low ends in the  *)
(* error of the scenario lookup and returns no table; a call with one of    *)
(* the three returns a table.                                               *)
C4_ScenarioChecked ==
    Called =>
        /\ inputs.price_scenario \notin {"Base", "High", "Low"}
              => result.status = "KeyError"
        /\ inputs.price_scenario \in {"Base", "High", "Low"} => Returned

(* C6: in every row, savings_pct is 0 when household_kwh or retail_price    *)
(* is 0, no call ends in a division error, and with baseline_cost > 0       *)
(* savings_pct is savings / baseline_cost * 100 rounded to 2 decimals.      *)
C6_SavingsPctGuard ==
    Called =>
        /\ result.status # "ZeroDivisionError"
        /\ Returned =>
              \A i \in 1..Len(result.rows) :
              \A b \in {FMul(inputs.household_kwh, inputs.retail_price)} :
              \A t \in {UnroundedTotal(i, Len(inputs.markets))} :
              \A sv \in {FSub(b, FSub(b, t))} :
                  /\ (FIsZero(inputs.household_kwh) \/ FIsZero(inputs.retail_price))
                        => /\ result.rows[i].baseline_cost = 0
                           /\ result.rows[i].savings_pct = 0
                  /\ FGtZero(b)
                        => \A q \in {FDiv(sv, b)} :
                              result.rows[i].savings_pct = Round2(FMul(q, FFromInt(100)))

C6_Witness ==
    /\ Called /\ Returned
    /\ FIsZero(inputs.household_kwh)
    /\ Len(result.rows) > 0
    /\ result.rows[1].total_revenue > 0
    /\ result.rows[1].savings_pct = 0

C6_WitnessPositive ==
    /\ Called /\ Returned
    /\ Len(result.rows) > 0
    /\ result.rows[1].baseline_cost > 0
    /\ result.rows[1].savings_pct > 0

(* C7: of the calls that differ from this one in price_scenario only and    *)
(* take the same noise draws, in every year the total_revenue of High is    *)
(* at least that of Base, which is at least that of Low.                    *)
C7_ScenarioOrder ==
    (Called /\ Returned /\ inputs.price_scenario = "Base") =>
        LET high == RunValuation([inputs EXCEPT !.price_scenario = "High"], tape)
            low == RunValuation([inputs EXCEPT !.price_scenario = "Low"], tape)
        IN  /\ high.status = "returned" /\ low.status = "returned"
            /\ Len(high.rows) = Len(result.rows) /\ Len(low.rows) = Len(result.rows)
            /\ \A i \in 1..Len(result.rows) :
                  /\ high.rows[i].total_revenue >= result.rows[i].total_revenue
                  /\ result.rows[i].total_revenue >= low.rows[i].total_revenue

C7_Witness ==
    /\ Called /\ Returned /\ inputs.price_scenario = "Base"
    /\ Len(result.rows) = 2
    /\ tape # <<FZero>>
    /\ RunValuation([inputs EXCEPT !.price_scenario = "High"], tape).rows[2].total_revenue
           > result.rows[2].total_revenue
    /\ RunValuation([inputs EXCEPT !.price_scenario = "Low"], tape).rows[2].total_revenue
           < result.rows[2].total_revenue

(* C9: in every row baseline_cost is household_kwh * retail_price,          *)
(* optimized_cost is baseline_cost less the revenue of the year, below 0    *)
(* when the revenue is the larger, and the stored savings is the stored     *)
(* total_revenue.                                                           *)
C9_CostFields ==
    (Called /\ Returned) =>
        \A i \in 1..Len(result.rows) :
        \A b \in {FMul(inputs.household_kwh, inputs.retail_price)} :
        \A t \in {UnroundedTotal(i, Len(inputs.markets))} :
            /\ result.rows[i].baseline_cost = Round2(b)
            /\ result.rows[i].optimized_cost = Round2(FSub(b, t))
            /\ FLess(b, t) => result.rows[i].optimized_cost <= 0
            /\ result.rows[i].savings = result.rows[i].total_revenue

(* the battery powers and goals of the calls that C10 compares with *)
InertAlternatives ==
    { <<FZero, "Cost minimizing">>, <<FFromInt(50), "Revenue maximizing">> }

(* C10: a call that differs from this one in battery_kw and optimization    *)
(* only, and takes the same noise draws, returns the same table.            *)
C10_InertInputs ==
    Called =>
        \A alt \in InertAlternatives :
            RunValuation([inputs EXCEPT !.battery_kw = alt[1], !.optimization = alt[2]],
                         tape) = result

C10_Witness ==
    /\ Called /\ Returned
    /\ inputs.battery_kw # FZero
    /\ inputs.optimization = "Revenue maximizing"
    /\ Len(result.rows) = 2
    /\ result.rows[2].total_revenue > 0

----------------------------------------------------------------------------
(* What the specification says of the session.                              *)

(* C5: a click on the button with no market selected invokes no valuation,  *)
(* renders no table, chart or download and shows a warning; the session     *)
(* never invokes the valuation with an empty selection.                     *)
C5_EmptyMarketGuard ==
    /\ (run_button /\ inputs.markets = <<>>) =>
          /\ calls = 0
          /\ result = NoResult
          /\ screen \cap Rendered = {}
          /\ "warning" \in screen
    /\ calls > 0 => inputs.markets # <<>>

C5_Witness ==
    /\ run_button
    /\ inputs.markets = <<>>
    /\ "warning" \in screen
    /\ calls = 0

(* C8: every click on the button with a market selected runs the valuation  *)
(* once and renders its table, charts and download to the end, and a pass   *)
(* of the script without a click runs no valuation.                         *)
C8_OneRunPerClick ==
    /\ (run_button /\ inputs.markets # <<>>) =>
          /\ calls = 1
          /\ Rendered \subseteq screen
          /\ "exception" \notin screen
    /\ ~run_button => calls = 0

====
